---------------------------- MODULE Spec2Model ----------------------------
(***************************************************************************)
(* Train_Test_Builder_v3.py: order-book snapshots of one trading day are   *)
(* turned into two one-second-grid matrices (label + 64 features).         *)
(*                                                                         *)
(* Conventions of the model                                                *)
(*  - numpy arrays and Python lists are functions over 0..n-1, so that an  *)
(*    index of the model is the index of the source;                       *)
(*  - a float64 is an exact rational, or inf, -inf, nan (FLOAT below):     *)
(*    rounding error of the binary format is not modelled, division by     *)
(*    zero and the propagation of inf/nan are;                             *)
(*  - time_second_basic holds whole seconds (time_transform reads the six  *)
(*    digits HH:MM:SS only), kept as integers.                             *)
(***************************************************************************)
EXTENDS Integers, Sequences, FiniteSets, TLC

(***************************************************************************)
(* float64                                                                 *)
(***************************************************************************)
RECURSIVE GCD(_, _)
GCD(a, b) ==
    IF b = 0 THEN a ELSE GCD(b, a % b)

Abs(x) ==
    IF x < 0 THEN -x ELSE x

Fin(n, d) ==
    LET s == IF d < 0 THEN -1 ELSE 1
        g == GCD(Abs(n), Abs(d))
    IN  [k |-> "fin", n |-> (s * n) \div g, d |-> (s * d) \div g]

F(n) ==
    Fin(n, 1)

NaN ==
    [k |-> "nan", n |-> 0, d |-> 1]

PInf ==
    [k |-> "inf", n |-> 1, d |-> 1]

NInf ==
    [k |-> "inf", n |-> -1, d |-> 1]

IsNaN(x) ==
    x.k = "nan"

IsFin(x) ==
    x.k = "fin"

Sgn(x) ==
    IF x.n > 0 THEN 1 ELSE IF x.n < 0 THEN -1 ELSE 0

SignedInf(s) ==
    IF s > 0 THEN PInf ELSE IF s < 0 THEN NInf ELSE NaN

FNeg(x) ==
    [x EXCEPT !.n = -x.n]

FAdd(x, y) ==
    CASE IsNaN(x) \/ IsNaN(y) -> NaN
      [] IsFin(x) /\ IsFin(y) -> Fin(x.n * y.d + y.n * x.d, x.d * y.d)
      [] IsFin(x) -> y
      [] IsFin(y) -> x
      [] OTHER -> IF x.n = y.n THEN x ELSE NaN

FSub(x, y) ==
    FAdd(x, FNeg(y))

FMul(x, y) ==
    CASE IsNaN(x) \/ IsNaN(y) -> NaN
      [] IsFin(x) /\ IsFin(y) -> Fin(x.n * y.n, x.d * y.d)
      [] OTHER -> SignedInf(Sgn(x) * Sgn(y))

\* numpy float64 division: x/0 is inf, -inf or nan (a RuntimeWarning, no exception)
FDiv(x, y) ==
    CASE IsNaN(x) \/ IsNaN(y) -> NaN
      [] IsFin(x) /\ IsFin(y) ->
            IF y.n = 0 THEN SignedInf(Sgn(x)) ELSE Fin(x.n * y.d, x.d * y.n)
      [] IsFin(x) -> F(0)
      [] IsFin(y) -> SignedInf(Sgn(x) * (IF y.n < 0 THEN -1 ELSE 1))
      [] OTHER -> NaN

\* x < y of float64: every comparison with nan is false
FLess(x, y) ==
    CASE IsNaN(x) \/ IsNaN(y) -> FALSE
      [] IsFin(x) /\ IsFin(y) -> x.n * y.d < y.n * x.d
      [] IsFin(x) -> y.n > 0
      [] IsFin(y) -> x.n < 0
      [] OTHER -> x.n < y.n

FGreater(x, y) ==
    FLess(y, x)

\* x == y of float64: nan is equal to nothing
FEq(x, y) ==
    ~IsNaN(x) /\ ~IsNaN(y) /\ x = y

FGeq(x, y) ==
    FGreater(x, y) \/ FEq(x, y)

FLeq(x, y) ==
    FLess(x, y) \/ FEq(x, y)

\* n/d (d > 0) to the nearest integer, ties to the even one
RoundHalfEven(n, d) ==
    LET q == n \div d
        r == n - q * d
    IN  IF 2 * r < d THEN q
        ELSE IF 2 * r > d THEN q + 1
        ELSE IF q % 2 = 0 THEN q ELSE q + 1

\* round(x, 5)
round5(x) ==
    IF IsFin(x) THEN Fin(RoundHalfEven(x.n * 100000, x.d), 100000) ELSE x

(***************************************************************************)
(* arrays (index 0..n-1)                                                   *)
(***************************************************************************)
len(a) ==
    Cardinality(DOMAIN a)

Empty ==
    <<>>

\* the array Op(0), ..., Op(n-1)
RECURSIVE Table(_, _)
Table(Op(_), n) ==
    IF n <= 0 THEN <<>> ELSE Table(Op, n - 1) @@ ((n - 1) :> Op(n - 1))

\* the function x |-> Op(x) over the entries of the tuple names
RECURSIVE MapNames(_, _, _)
MapNames(Op(_), names, n) ==
    IF n = 0 THEN <<>> ELSE MapNames(Op, names, n - 1) @@ (names[n] :> Op(names[n]))

\* the tuple s as an array
Arr(s) ==
    Table(LAMBDA j : s[j + 1], Len(s))

append(a, v) ==
    a @@ (len(a) :> v)

Min2(a, b) ==
    IF a < b THEN a ELSE b

\* a[lo:hi] for lo, hi >= 0
Slice(a, lo, hi) ==
    Table(LAMBDA j : a[lo + j], Min2(hi, len(a)) - lo)

\* a[lo:]
SliceFrom(a, lo) ==
    Slice(a, lo, len(a))

MaxOf(S) ==
    CHOOSE x \in S : \A y \in S : y <= x

MinOf(S) ==
    CHOOSE x \in S : \A y \in S : x <= y

RECURSIVE SumTo(_, _)
SumTo(a, n) ==
    IF n = 0 THEN F(0) ELSE FAdd(SumTo(a, n - 1), a[n - 1])

\* a variant: the mean of the entries that are not zero
mean_nonzero(a) ==
    FDiv(SumTo(a, len(a)), F(Cardinality({j \in DOMAIN a : ~FEq(a[j], F(0))})))

\* np.mean(a)
mean(a) ==
    FDiv(SumTo(a, len(a)), F(len(a)))

\* the smaller of two floats as np.min folds them: a nan wins
FMin(m, x) ==
    IF IsNaN(m) \/ IsNaN(x) THEN NaN ELSE IF FLess(x, m) THEN x ELSE m

\* np.min(a), a not empty
RECURSIVE MinTo(_, _)
MinTo(a, n) ==
    IF n = 1 THEN a[0] ELSE FMin(MinTo(a, n - 1), a[n - 1])

npmin(a) ==
    MinTo(a, len(a))

(***************************************************************************)
(* rise_ask                                                                *)
(***************************************************************************)
ZeroTo(Ask1, m) ==
    Table(LAMBDA j : IF FEq(Ask1[j], F(0)) THEN m ELSE Ask1[j], len(Ask1))

\* Ask1[Ask1 == 0] = np.mean(Ask1)
ZeroToMean(Ask1) ==
    ZeroTo(Ask1, mean(Ask1))

\* np.where(timestamp_time_second >= bound)[0]
WhereGeq(timestamp_time_second, bound) ==
    {j \in DOMAIN timestamp_time_second : FGeq(F(timestamp_time_second[j]), bound)}

\* round((Ask1[i] - Ask1[b]) / Ask1[b] * 100, 5)
RiseRatio(Ask1, i, b) ==
    round5(FMul(FDiv(FSub(Ask1[i], Ask1[b]), Ask1[b]), F(100)))

\* np.where(timestamp_time_second[:i] >= timestamp_time_second[i] - before_time)[0]
StartCandidates(timestamp_time_second, i, before_time) ==
    {j \in WhereGeq(timestamp_time_second,
                    FSub(F(timestamp_time_second[i]), before_time)) : j < i}

\* a variant that takes the last of them
index_start_last(timestamp_time_second, i, before_time) ==
    MaxOf(StartCandidates(timestamp_time_second, i, before_time))

\* index_start of snapshot i: the first of them
index_start(timestamp_time_second, i, before_time) ==
    MinOf(StartCandidates(timestamp_time_second, i, before_time))

\* the baseline index of snapshot i, given the first index whose offset reaches
\* before_time
baseline(timestamp_time_second, i, before_time, index) ==
    IF i < index THEN 0 ELSE index_start(timestamp_time_second, i, before_time)

\* the two loops of rise_ask; raised is "" or the exception that ends the call
rise_loops(Ask1, timestamp_time_second, before_time, index) ==
    IF \/ index > len(Ask1)
       \/ \E i \in index .. len(Ask1) - 1 :
             \/ i \notin DOMAIN timestamp_time_second
             \/ StartCandidates(timestamp_time_second, i, before_time) = {}
    THEN [raised |-> "IndexError", Ask1 |-> Ask1, rise_ratio |-> Empty]
    ELSE [raised |-> "",
          Ask1 |-> Ask1,
          rise_ratio |->
             Table(LAMBDA i : RiseRatio(Ask1, i,
                                 baseline(timestamp_time_second, i, before_time, index)),
                   len(Ask1))]

\* rise_ask after the substitution of line 152
rise_from(Ask1, timestamp_time_second, before_time) ==
    IF WhereGeq(timestamp_time_second, before_time) = {}
    THEN [raised |-> "IndexError", Ask1 |-> Ask1, rise_ratio |-> Empty]
    ELSE rise_loops(Ask1, timestamp_time_second, before_time,
                    MinOf(WhereGeq(timestamp_time_second, before_time)))

\* The whole of rise_ask.  Ask1 of the result is the caller's array after the
\* in-place substitution.
rise_ask(Ask1, timestamp_time_second, before_time) ==
    rise_from(ZeroToMean(Ask1), timestamp_time_second, before_time)

(***************************************************************************)
(* weight_percentage                                                       *)
(***************************************************************************)
\* w1 * q1 + w2 * q2 + w3 * q3, elementwise
Weight(w1, w2, w3, q1, q2, q3) ==
    Table(LAMBDA j : FAdd(FAdd(FMul(F(w1), q1[j]), FMul(F(w2), q2[j])),
                          FMul(F(w3), q3[j])),
          len(q1))

\* Weight_Ask / Weight_Bid
W_AB_of(Weight_Ask, Weight_Bid) ==
    Table(LAMBDA j : FDiv(Weight_Ask[j], Weight_Bid[j]), len(Weight_Ask))

\* (Weight_Ask - Weight_Bid) / (Weight_Ask + Weight_Bid)
W_A_B_of(Weight_Ask, Weight_Bid) ==
    Table(LAMBDA j : FDiv(FSub(Weight_Ask[j], Weight_Bid[j]),
                          FAdd(Weight_Ask[j], Weight_Bid[j])),
          len(Weight_Ask))

depth_pair(Weight_Ask, Weight_Bid) ==
    [Weight_Ask |-> Weight_Ask,
     Weight_Bid |-> Weight_Bid,
     W_AB |-> W_AB_of(Weight_Ask, Weight_Bid),
     W_A_B |-> W_A_B_of(Weight_Ask, Weight_Bid)]

\* ask_quantity and bid_quantity are the three level arrays of each side
weight_percentage(w1, w2, w3, ask_quantity, bid_quantity) ==
    depth_pair(Weight(w1, w2, w3, ask_quantity[1], ask_quantity[2], ask_quantity[3]),
               Weight(w1, w2, w3, bid_quantity[1], bid_quantity[2], bid_quantity[3]))

(***************************************************************************)
(* The scale of the model.  One grid step of the model stands for          *)
(* TickSeconds seconds: the lookback windows and the horizon are the       *)
(* source's seconds divided by it; the two sessions are shortened.         *)
(***************************************************************************)
TickSeconds ==
    120

\* 9000: the morning grid is [0, MorningClose)
MorningClose ==
    4

\* 14400: the afternoon grid is [AfternoonOpen, SessionClose)
AfternoonOpen ==
    6

\* 25200
SessionClose ==
    14

\* 32400.0, 09:00:00 as a second of the day
SessionOpen ==
    32400 \div TickSeconds

\* traded_time = 600 of the main program
traded_time_main ==
    600 \div TickSeconds

(***************************************************************************)
(* The 64 feature series and the positional call chain                     *)
(* data -> Feature_DataFrame_UP/DOWN -> traded_label_one_second            *)
(***************************************************************************)
RiseNames ==
    <<
      "rise_ratio_ask_1", "rise_ratio_ask_2", "rise_ratio_ask_3", "rise_ratio_ask_4",
      "rise_ratio_ask_5", "rise_ratio_ask_6", "rise_ratio_ask_7", "rise_ratio_ask_8",
      "rise_ratio_ask_9", "rise_ratio_ask_10", "rise_ratio_ask_11", "rise_ratio_ask_12",
      "rise_ratio_ask_13", "rise_ratio_ask_14", "rise_ratio_ask_15", "rise_ratio_ask_16",
      "rise_ratio_ask_17", "rise_ratio_ask_18", "rise_ratio_ask_19", "rise_ratio_ask_20",
      "rise_ratio_ask_21", "rise_ratio_ask_22", "rise_ratio_ask_23", "rise_ratio_ask_24",
      "rise_ratio_ask_25", "rise_ratio_ask_26", "rise_ratio_ask_27", "rise_ratio_ask_28",
      "rise_ratio_ask_29", "rise_ratio_ask_30"
    >>

Keys ==
    <<"100", "010", "001", "910", "820", "730", "640", "550", "721", "532", "111", "190", "280", "370", "460", "127", "235">>

W_AB_name ==
    [key \in {Keys[p] : p \in 1 .. Len(Keys)} |->
        CASE key = "100" -> "W_AB_100"
          [] key = "010" -> "W_AB_010"
          [] key = "001" -> "W_AB_001"
          [] key = "910" -> "W_AB_910"
          [] key = "820" -> "W_AB_820"
          [] key = "730" -> "W_AB_730"
          [] key = "640" -> "W_AB_640"
          [] key = "550" -> "W_AB_550"
          [] key = "721" -> "W_AB_721"
          [] key = "532" -> "W_AB_532"
          [] key = "111" -> "W_AB_111"
          [] key = "190" -> "W_AB_190"
          [] key = "280" -> "W_AB_280"
          [] key = "370" -> "W_AB_370"
          [] key = "460" -> "W_AB_460"
          [] key = "127" -> "W_AB_127"
          [] key = "235" -> "W_AB_235"]

W_A_B_name ==
    [key \in {Keys[p] : p \in 1 .. Len(Keys)} |->
        CASE key = "100" -> "W_A_B_100"
          [] key = "010" -> "W_A_B_010"
          [] key = "001" -> "W_A_B_001"
          [] key = "910" -> "W_A_B_910"
          [] key = "820" -> "W_A_B_820"
          [] key = "730" -> "W_A_B_730"
          [] key = "640" -> "W_A_B_640"
          [] key = "550" -> "W_A_B_550"
          [] key = "721" -> "W_A_B_721"
          [] key = "532" -> "W_A_B_532"
          [] key = "111" -> "W_A_B_111"
          [] key = "190" -> "W_A_B_190"
          [] key = "280" -> "W_A_B_280"
          [] key = "370" -> "W_A_B_370"
          [] key = "460" -> "W_A_B_460"
          [] key = "127" -> "W_A_B_127"
          [] key = "235" -> "W_A_B_235"]

DepthNames ==
    <<
      "W_AB_100", "W_A_B_100", "W_AB_010", "W_A_B_010",
      "W_AB_001", "W_A_B_001", "W_AB_910", "W_A_B_910",
      "W_AB_820", "W_A_B_820", "W_AB_730", "W_A_B_730",
      "W_AB_640", "W_A_B_640", "W_AB_550", "W_A_B_550",
      "W_AB_721", "W_A_B_721", "W_AB_532", "W_A_B_532",
      "W_AB_111", "W_A_B_111", "W_AB_190", "W_A_B_190",
      "W_AB_280", "W_A_B_280", "W_AB_370", "W_A_B_370",
      "W_AB_460", "W_A_B_460", "W_AB_127", "W_A_B_127",
      "W_AB_235", "W_A_B_235"
    >>

Range(s) ==
    {s[p] : p \in 1 .. Len(s)}

Pos(s, x) ==
    CHOOSE p \in 1 .. Len(s) : s[p] = x

\* the lookback of rise_ratio_ask_k, in seconds: 60.0 * 6, 60.0 * 6 + 30, 60.0 * 7, ...
before_time(k) ==
    60 * (6 + (k - 1) \div 2) + 30 * ((k - 1) % 2)

\* the same lookback in grid steps of the model
before_time_ticks(k) ==
    Fin(before_time(k), TickSeconds)

\* the weight_percentage calls of data(), in source order: the weights passed, the
\* two variables the result is assigned to, and the triple name they carry
DepthCalls ==
    <<
       [key |-> "100", W_AB |-> "W_AB_100", W_A_B |-> "W_A_B_100", w1 |-> 100, w2 |-> 0, w3 |-> 0],
       [key |-> "010", W_AB |-> "W_AB_010", W_A_B |-> "W_A_B_010", w1 |-> 0, w2 |-> 100, w3 |-> 0],
       [key |-> "001", W_AB |-> "W_AB_001", W_A_B |-> "W_A_B_001", w1 |-> 0, w2 |-> 0, w3 |-> 100],
       [key |-> "910", W_AB |-> "W_AB_910", W_A_B |-> "W_A_B_910", w1 |-> 90, w2 |-> 10, w3 |-> 0],
       [key |-> "820", W_AB |-> "W_AB_820", W_A_B |-> "W_A_B_820", w1 |-> 80, w2 |-> 20, w3 |-> 0],
       [key |-> "730", W_AB |-> "W_AB_730", W_A_B |-> "W_A_B_730", w1 |-> 70, w2 |-> 30, w3 |-> 0],
       [key |-> "640", W_AB |-> "W_AB_640", W_A_B |-> "W_A_B_640", w1 |-> 60, w2 |-> 40, w3 |-> 0],
       [key |-> "550", W_AB |-> "W_AB_550", W_A_B |-> "W_A_B_550", w1 |-> 50, w2 |-> 50, w3 |-> 0],
       [key |-> "721", W_AB |-> "W_AB_721", W_A_B |-> "W_A_B_721", w1 |-> 70, w2 |-> 20, w3 |-> 10],
       [key |-> "532", W_AB |-> "W_AB_532", W_A_B |-> "W_A_B_532", w1 |-> 50, w2 |-> 30, w3 |-> 20],
       [key |-> "111", W_AB |-> "W_AB_111", W_A_B |-> "W_A_B_111", w1 |-> 1, w2 |-> 1, w3 |-> 1],
       [key |-> "190", W_AB |-> "W_AB_190", W_A_B |-> "W_A_B_190", w1 |-> 10, w2 |-> 90, w3 |-> 1],
       [key |-> "280", W_AB |-> "W_AB_280", W_A_B |-> "W_A_B_280", w1 |-> 20, w2 |-> 80, w3 |-> 0],
       [key |-> "370", W_AB |-> "W_AB_370", W_A_B |-> "W_A_B_370", w1 |-> 30, w2 |-> 70, w3 |-> 0],
       [key |-> "460", W_AB |-> "W_AB_460", W_A_B |-> "W_A_B_460", w1 |-> 40, w2 |-> 60, w3 |-> 0],
       [key |-> "127", W_AB |-> "W_AB_127", W_A_B |-> "W_A_B_127", w1 |-> 10, w2 |-> 20, w3 |-> 70],
       [key |-> "235", W_AB |-> "W_AB_235", W_A_B |-> "W_A_B_235", w1 |-> 20, w2 |-> 30, w3 |-> 50]
    >>

\* the depth lists in the order traded_label_one_second returns them
return_depth ==
    <<
       <<"w_divid", "100">>, <<"w_diff", "100">>,
       <<"w_divid", "010">>, <<"w_diff", "010">>,
       <<"w_divid", "001">>, <<"w_diff", "001">>,
       <<"w_divid", "910">>, <<"w_diff", "910">>,
       <<"w_divid", "820">>, <<"w_diff", "820">>,
       <<"w_divid", "730">>, <<"w_diff", "730">>,
       <<"w_divid", "640">>, <<"w_diff", "640">>,
       <<"w_divid", "550">>, <<"w_diff", "550">>,
       <<"w_divid", "721">>, <<"w_diff", "721">>,
       <<"w_divid", "532">>, <<"w_diff", "532">>,
       <<"w_divid", "111">>, <<"w_diff", "111">>,
       <<"w_divid", "190">>, <<"w_diff", "190">>,
       <<"w_divid", "280">>, <<"w_diff", "280">>,
       <<"w_divid", "370">>, <<"w_diff", "370">>,
       <<"w_divid", "460">>, <<"w_diff", "460">>,
       <<"w_divid", "127">>, <<"w_diff", "127">>,
       <<"w_divid", "235">>, <<"w_diff", "235">>
    >>

\* the arguments data() passes to Feature_DataFrame_UP and _DOWN
data_call_args(h) ==
    <<"traded_time", "time_second_basic", "bid_price_1", "ask_price_1">>
        \o RiseNames \o DepthNames

\* the parameters of Feature_DataFrame_UP and _DOWN
Feature_DataFrame_params(h) ==
    <<"traded_time", "time_second_basic", "bid_price_1", "ask_price_1">>
        \o RiseNames \o DepthNames

\* the arguments Feature_DataFrame_UP and _DOWN pass to traded_label_one_second
label_call_args(h) ==
    <<"time1", "time2", "time_second_basic", "bid_price_1", "ask_price_1", "traded_time">>
        \o RiseNames \o DepthNames

\* the parameters of traded_label_one_second
traded_label_params ==
    <<"time1", "time2", "time_second_basic", "bid_price_1", "ask_price_1", "traded_time">>
        \o RiseNames \o DepthNames

\* rise_ratio_vars of traded_label_one_second, as an array
rise_ratio_vars ==
    Arr(RiseNames)

\* number of rise-ratio lists: rise_ratio_second = [[] for _ in range(30)]
NRise ==
    Len(RiseNames)

\* the callee's namespace: each parameter bound to the argument at its position
Bind(params, args, env) ==
    [x \in Range(params) |-> env[args[Pos(params, x)]]]

(***************************************************************************)
(* State                                                                   *)
(***************************************************************************)
VARIABLES
    pc,                 \* where the program is
    disk,               \* day_list: the input file of each day, or its absence
    day,                \* position of the main loop in day_list
    log,                \* what the main program reported, one entry per day
    csv,                \* the output files written so far
    len_,               \* the length data() returned to train_test_to_csv
    time_second_basic, bid_price_1, ask_price_1, ask_quantity, bid_quantity,
    series,             \* the 64 feature variables of data()
    half,               \* "UP" or "DOWN": which Feature_DataFrame_* is running
    i, index, index_one, index_, traded, rise_ratio_second, w_divid, w_diff,
    data_2014_UP, data_2014_DOWN,
    call, ret           \* a single call of rise_ask or weight_percentage

mainVars ==
    <<pc, disk, day, log, csv, len_>>

dataVars ==
    <<time_second_basic, bid_price_1, ask_price_1, ask_quantity, bid_quantity, series,
      data_2014_UP, data_2014_DOWN>>

walkVars ==
    <<half, i, index, index_one, index_, traded, rise_ratio_second, w_divid, w_diff>>

callVars ==
    <<call, ret>>

vars ==
    <<mainVars, dataVars, walkVars, callVars>>

KeySet ==
    Range(Keys)

FeatureNameSet ==
    Range(RiseNames) \cup Range(DepthNames)

time1(h) ==
    IF h = "UP" THEN 0 ELSE AfternoonOpen

time2(h) ==
    IF h = "UP" THEN MorningClose ELSE SessionClose

(***************************************************************************)
(* Namespaces of the three functions of the call chain                     *)
(***************************************************************************)
data_env ==
    [x \in {"traded_time", "time_second_basic", "bid_price_1", "ask_price_1"}
            \cup FeatureNameSet |->
        CASE x = "traded_time" -> traded_time_main
          [] x = "time_second_basic" -> time_second_basic
          [] x = "bid_price_1" -> bid_price_1
          [] x = "ask_price_1" -> ask_price_1
          [] OTHER -> series[x]]

frame_env(h) ==
    [x \in Range(Feature_DataFrame_params(h)) \cup {"time1", "time2"} |->
        CASE x = "time1" -> time1(h)
          [] x = "time2" -> time2(h)
          [] OTHER -> Bind(Feature_DataFrame_params(h), data_call_args(h), data_env)[x]]

label_env(h) ==
    Bind(traded_label_params, label_call_args(h), frame_env(h))

(***************************************************************************)
(* traded_label_one_second, one grid second                                *)
(***************************************************************************)
\* a variant that looks only inside the second, at the start of a half too
index_array_window(tsb, ii) ==
    {j \in DOMAIN tsb : tsb[j] < ii + 1 /\ tsb[j] >= ii}

\* the as-of lookup of second ii
index_array(tsb, ii) ==
    IF ii = 0 \/ ii = AfternoonOpen
    THEN {j \in DOMAIN tsb : tsb[j] <= ii}
    ELSE {j \in DOMAIN tsb : tsb[j] < ii + 1 /\ tsb[j] >= ii}

\* a variant that takes the first snapshot of the lookup
as_of_index_first(tsb, ii) ==
    MinOf(index_array(tsb, ii))

\* index_array[-1]
as_of_index(tsb, ii) ==
    MaxOf(index_array(tsb, ii))

\* np.where(time_second_basic <= i + traded_time)[0]
horizon_array(tsb, ii, tt) ==
    {j \in DOMAIN tsb : tsb[j] <= ii + tt}

\* 1 if the bid is above the minimum of traded_min; np.min of nothing raises
label_from(b, traded_min) ==
    IF len(traded_min) = 0
    THEN [raised |-> "ValueError", label |-> 0]
    ELSE [raised |-> "", label |-> IF FGreater(b, npmin(traded_min)) THEN 1 ELSE 0]

\* a variant whose window includes the snapshot at the horizon
forward_label_inclusive(tsb, bid, ask, tt, ii, idx) ==
    IF horizon_array(tsb, ii, tt) = {}
    THEN [raised |-> "IndexError", label |-> 0]
    ELSE label_from(bid[idx], Slice(ask, idx, MaxOf(horizon_array(tsb, ii, tt)) + 1))

\* the label before the last traded_time seconds of the day
forward_label(tsb, bid, ask, tt, ii, idx) ==
    IF horizon_array(tsb, ii, tt) = {}
    THEN [raised |-> "IndexError", label |-> 0]
    ELSE label_from(bid[idx], Slice(ask, idx, MaxOf(horizon_array(tsb, ii, tt))))

\* the label in the last traded_time seconds of the day
close_label(bid, ask, idx) ==
    [raised |-> "", label |-> IF FGreater(bid[idx], ask[len(ask) - 1]) THEN 1 ELSE 0]

\* the label of second ii, anchored at snapshot idx
label_rule(tsb, bid, ask, tt, ii, idx) ==
    IF ii < SessionClose - tt
    THEN forward_label(tsb, bid, ask, tt, ii, idx)
    ELSE close_label(bid, ask, idx)

\* the label of a second that has a snapshot
traded_label(env, ii, idx) ==
    label_rule(env["time_second_basic"], env["bid_price_1"], env["ask_price_1"],
               env["traded_time"], ii, idx)

\* a variant that falls back to the starting index of the half
carried_index_start(idx, idx_one) ==
    idx_one

\* the index a gap second works with: the one the last iteration left behind
carried_index(idx, idx_one) ==
    idx

\* a variant that labels every gap second against the last ask of the day
gap_label_close(env, ii, idx) ==
    IF idx = -1
    THEN [raised |-> "UnboundLocalError", label |-> 0]
    ELSE close_label(env["bid_price_1"], env["ask_price_1"], idx)

\* the label of a gap second
gap_label(env, ii, idx) ==
    IF idx = -1
    THEN [raised |-> "UnboundLocalError", label |-> 0]
    ELSE label_rule(env["time_second_basic"], env["bid_price_1"], env["ask_price_1"],
                    env["traded_time"], ii, idx)

\* a[j] of Python: a negative j counts from the end
InRange(a, j) ==
    j < len(a) /\ j >= -len(a)

Get(a, j) ==
    IF j >= 0 THEN a[j] ELSE a[len(a) + j]

\* offset = index - index_one
row_offset(idx, idx_one) ==
    idx - idx_one

\* a variant that reads the depth series at the offset itself
depth_idx_relative(idx_one, offset) ==
    offset

\* idx = index_one + offset
depth_idx(idx_one, offset) ==
    idx_one + offset

\* rise_ratio_vars[j][offset], j = 0..29
fresh_rise(env, offset) ==
    Table(LAMBDA j : Get(env[rise_ratio_vars[j]], offset), NRise)

\* W_AB_<key>[idx] for each key
fresh_divid(env, idx) ==
    MapNames(LAMBDA key : Get(env[W_AB_name[key]], idx), Keys, Len(Keys))

\* W_A_B_<key>[idx] for each key
fresh_diff(env, idx) ==
    MapNames(LAMBDA key : Get(env[W_A_B_name[key]], idx), Keys, Len(Keys))

\* variants that repeat the first value of each list
gap_rise_first(rrs) ==
    Table(LAMBDA j : Get(rrs[j], 0), NRise)

gap_depth_first(w) ==
    MapNames(LAMBDA key : Get(w[key], 0), Keys, Len(Keys))

\* the values a gap second appends: the last of each list
gap_rise(rrs) ==
    Table(LAMBDA j : Get(rrs[j], -1), NRise)

gap_depth(w) ==
    MapNames(LAMBDA key : Get(w[key], -1), Keys, Len(Keys))

\* whether every series can be read at the positions of this second
readable(env, offset, didx) ==
    /\ \A j \in 0 .. NRise - 1 : InRange(env[rise_ratio_vars[j]], offset)
    /\ \A key \in KeySet : /\ InRange(env[W_AB_name[key]], didx)
                           /\ InRange(env[W_A_B_name[key]], didx)

\* index_ after a second that has a snapshot
index_after(env, ii, idx) ==
    IF ii = env["time1"] /\ ii = env["time2"] - 1 THEN append(append(index_, idx), idx)
    ELSE IF ii = env["time1"] \/ ii = env["time2"] - 1 THEN append(index_, idx)
    ELSE index_

\* the lists after one more value each
appended(idx, idxs, lab, rise_v, divid_v, diff_v) ==
    [raised |-> "",
     index |-> idx,
     index_ |-> idxs,
     traded |-> append(traded, lab.label),
     rise_ratio_second |-> Table(LAMBDA j : append(rise_ratio_second[j], rise_v[j]), NRise),
     w_divid |-> MapNames(LAMBDA key : append(w_divid[key], divid_v[key]), Keys, Len(Keys)),
     w_diff |-> MapNames(LAMBDA key : append(w_diff[key], diff_v[key]), Keys, Len(Keys))]

\* a second that has a snapshot
fresh_second(env, ii, idx, lab, offset) ==
    IF lab.raised # "" THEN [raised |-> lab.raised]
    ELSE IF ~readable(env, offset, depth_idx(index_one, offset))
    THEN [raised |-> "IndexError"]
    ELSE appended(idx, index_after(env, ii, idx), lab,
                  fresh_rise(env, offset),
                  fresh_divid(env, depth_idx(index_one, offset)),
                  fresh_diff(env, depth_idx(index_one, offset)))

\* a second that has none
gap_second(env, ii, idx, lab) ==
    IF lab.raised # "" THEN [raised |-> lab.raised]
    ELSE appended(idx, index_, lab,
                  gap_rise(rise_ratio_second), gap_depth(w_divid), gap_depth(w_diff))

\* one iteration of the loop of traded_label_one_second
walk_second(env, ii) ==
    IF index_array(env["time_second_basic"], ii) # {}
    THEN fresh_second(env, ii,
                      as_of_index(env["time_second_basic"], ii),
                      traded_label(env, ii, as_of_index(env["time_second_basic"], ii)),
                      row_offset(as_of_index(env["time_second_basic"], ii), index_one))
    ELSE gap_second(env, ii,
                    carried_index(index, index_one),
                    gap_label(env, ii, carried_index(index, index_one)))

\* a variant that returns each (ratio, diff) pair the other way round
return_item_swapped(p) ==
    IF p = 0 THEN traded
    ELSE IF p = 1 THEN index_
    ELSE IF p < 2 + NRise THEN rise_ratio_second[p - 2]
    ELSE IF return_depth[p - 1 - NRise][1] = "w_divid"
         THEN w_diff[return_depth[p - 1 - NRise][2]]
         ELSE w_divid[return_depth[p - 1 - NRise][2]]

\* one entry of the tuple traded_label_one_second returns
return_item(p) ==
    IF p = 0 THEN traded
    ELSE IF p = 1 THEN index_
    ELSE IF p < 2 + NRise THEN rise_ratio_second[p - 2]
    ELSE IF return_depth[p - 1 - NRise][1] = "w_divid"
         THEN w_divid[return_depth[p - 1 - NRise][2]]
         ELSE w_diff[return_depth[p - 1 - NRise][2]]

\* the tuple traded_label_one_second returns
traded_label_return ==
    Table(return_item, 2 + NRise + Len(return_depth))

\* [traded, *rise_ratios, *depth_features]
frame_columns(traded_, rise_ratios, depth_features) ==
    Table(LAMBDA c : IF c = 0 THEN Table(LAMBDA r : F(traded_[r]), len(traded_))
                     ELSE IF c <= len(rise_ratios) THEN rise_ratios[c - 1]
                     ELSE depth_features[c - 1 - len(rise_ratios)],
          1 + len(rise_ratios) + len(depth_features))

\* np.array(columns).T
transpose(columns, nrows) ==
    Table(LAMBDA r : Table(LAMBDA c : columns[c][r], len(columns)), nrows)

\* traded = result[0], rise_ratios = result[2:32], depth_features = result[32:]
Feature_DataFrame(result) ==
    transpose(frame_columns(result[0], Slice(result, 2, 32), SliceFrom(result, 32)),
              len(result[0]))

(***************************************************************************)
(* Input days                                                              *)
(***************************************************************************)
\* one event of the tick file: prices in cents, a quantity may be missing (nan)
BookA ==
    [Bid |-> 100, Ask |-> 200,
     Ask_Quantity |-> <<F(1), F(2), NaN>>, Bid_Quantity |-> <<F(2), F(0), F(1)>>]

BookB ==
    [Bid |-> 300, Ask |-> 400,
     Ask_Quantity |-> <<F(0), F(3), F(1)>>, Bid_Quantity |-> <<F(0), F(1), F(4)>>]

BookZ ==
    [Bid |-> 100, Ask |-> 0,
     Ask_Quantity |-> <<NaN, NaN, NaN>>, Bid_Quantity |-> <<F(1), NaN, F(0)>>]

\* the offsets of the events of a day, in grid steps after 09:00:00
Profiles ==
    { <<0, 3, 6, 9, 12>>,
      <<0, 2, 4, 7, 10, 13>>,
      <<-1, 0, 3, 6, 9, 12>>,
      <<0, 0, 3, 6, 9, 12>>,
      <<0, 3, 3, 6, 9, 12>>,
      <<0, 3, 6, 7, 8, 11>>,
      <<-2, -1, 2, 5, 8, 11>>,
      <<0, 3, 6, 9, 12, 15>>,
      <<-1, 0, 3, 6, 12>>,
      <<0, 3, 2, 6, 9, 12>>,
      <<0, 5, 10>>,
      <<0, 4, 8, 12>>,
      <<1, 3, 6, 9, 12>> }

\* the books of the events: A or B at each event, or A or Z at each event
BookChoices(n) ==
    [1 .. n -> {BookA, BookB}] \cup [1 .. n -> {BookA, BookZ}]

MakeRow(t, book) ==
    [timestamp |-> SessionOpen + t,
     Bid |-> book.Bid,
     Ask |-> book.Ask,
     Bid_Quantity |-> book.Bid_Quantity,
     Ask_Quantity |-> book.Ask_Quantity]

MakeDay(offsets, books) ==
    [exists |-> TRUE,
     rows |-> Table(LAMBDA j : MakeRow(offsets[j + 1], books[j + 1]), Len(offsets))]

Days ==
    UNION {{MakeDay(o, b) : b \in BookChoices(Len(o))} : o \in Profiles}

\* a day whose file is not there
Missing ==
    [exists |-> FALSE, rows |-> Empty]

(***************************************************************************)
(* order_book, time_transform                                              *)
(***************************************************************************)
\* q[np.isnan(q)] = 0
NanToZero(q) ==
    Table(LAMBDA j : IF IsNaN(q[j]) THEN F(0) ELSE q[j], len(q))

\* the level-l quantity column of one side, nan filled
bid_level(rows, l) ==
    NanToZero(Table(LAMBDA j : rows[j].Bid_Quantity[l], len(rows)))

ask_level(rows, l) ==
    NanToZero(Table(LAMBDA j : rows[j].Ask_Quantity[l], len(rows)))

\* prices are divided by 100; quantities are the three level arrays of each side
order_book_rows(rows) ==
    [timestamp |-> Table(LAMBDA j : rows[j].timestamp, len(rows)),
     bid_price_1 |-> Table(LAMBDA j : Fin(rows[j].Bid, 100), len(rows)),
     ask_price_1 |-> Table(LAMBDA j : Fin(rows[j].Ask, 100), len(rows)),
     bid_quantity |-> <<bid_level(rows, 1), bid_level(rows, 2), bid_level(rows, 3)>>,
     ask_quantity |-> <<ask_level(rows, 1), ask_level(rows, 2), ask_level(rows, 3)>>]

order_book(file) ==
    order_book_rows(file.rows)

\* time_second_basic of time_transform
time_transform(timestamp) ==
    Table(LAMBDA j : timestamp[j] - SessionOpen, len(timestamp))

(***************************************************************************)
(* The program                                                             *)
(***************************************************************************)
NoSeries ==
    MapNames(LAMBDA x : Empty, RiseNames \o DepthNames, NRise + Len(DepthNames))

NoLists30 ==
    Table(LAMBDA j : Empty, NRise)

NoListsKey ==
    MapNames(LAMBDA key : Empty, Keys, Len(Keys))

IdleData ==
    /\ time_second_basic = Empty
    /\ bid_price_1 = Empty
    /\ ask_price_1 = Empty
    /\ ask_quantity = Empty
    /\ bid_quantity = Empty
    /\ series = NoSeries
    /\ data_2014_UP = Empty
    /\ data_2014_DOWN = Empty

IdleWalk ==
    /\ half = ""
    /\ i = 0
    /\ index = -1
    /\ index_one = -1
    /\ index_ = Empty
    /\ traded = Empty
    /\ rise_ratio_second = NoLists30
    /\ w_divid = NoListsKey
    /\ w_diff = NoListsKey

IdleCall ==
    /\ call = [f |-> ""]
    /\ ret = [f |-> ""]

\* train_test_to_csv is left: the locals of the calls of the day are gone
DropData ==
    /\ time_second_basic' = Empty
    /\ bid_price_1' = Empty
    /\ ask_price_1' = Empty
    /\ ask_quantity' = Empty
    /\ bid_quantity' = Empty
    /\ series' = NoSeries

DropFrames ==
    /\ data_2014_UP' = Empty
    /\ data_2014_DOWN' = Empty

DropWalk ==
    /\ half' = ""
    /\ i' = 0
    /\ index' = -1
    /\ index_one' = -1
    /\ index_' = Empty
    /\ traded' = Empty
    /\ rise_ratio_second' = NoLists30
    /\ w_divid' = NoListsKey
    /\ w_diff' = NoListsKey

\* a variant in which the exception is reported and ends the loop over day_list
ExceptAbort(e) ==
    /\ log' = append(log, [day |-> day, result |-> e, len_ |-> 0])
    /\ pc' = "done"
    /\ len_' = 0
    /\ DropData
    /\ DropFrames
    /\ DropWalk
    /\ UNCHANGED <<disk, day, csv, callVars>>

\* an exception leaves train_test_to_csv and reaches the except clauses of the
\* main loop, which report it and go on with the next day
Except(e) ==
    /\ log' = append(log, [day |-> day, result |-> e, len_ |-> 0])
    /\ day' = day + 1
    /\ pc' = "main"
    /\ len_' = 0
    /\ DropData
    /\ DropFrames
    /\ DropWalk
    /\ UNCHANGED <<disk, csv, callVars>>

\* the arrays of the day are the locals of data()
Loaded(ob) ==
    /\ time_second_basic' = time_transform(ob.timestamp)
    /\ bid_price_1' = ob.bid_price_1
    /\ ask_price_1' = ob.ask_price_1
    /\ ask_quantity' = ob.ask_quantity
    /\ bid_quantity' = ob.bid_quantity
    /\ pc' = "rise"
    /\ UNCHANGED <<disk, day, log, csv, len_, series, data_2014_UP,
                   data_2014_DOWN, walkVars, callVars>>

\* order_book and time_transform
OrderBook ==
    /\ pc = "main"
    /\ day < len(disk)
    /\ IF ~disk[day].exists
       THEN Except("FileNotFoundError")
       ELSE Loaded(order_book(disk[day]))

\* np.where(time_second_basic <= 0.0)[0]
open_array(tsb) ==
    {j \in DOMAIN tsb : tsb[j] <= 0}

\* the calls rise_ask(Ask1, time_second_basic, ...) number k to 30, in order
RECURSIVE rise_features(_, _, _, _)
RECURSIVE rise_assign(_, _, _, _)
rise_assign(k, r, tsb, acc) ==
    IF r.raised # "" THEN [raised |-> r.raised, Ask1 |-> r.Ask1, out |-> acc]
    ELSE rise_features(k + 1, r.Ask1, tsb, [acc EXCEPT ![RiseNames[k]] = r.rise_ratio])

rise_features(k, Ask1, tsb, acc) ==
    IF k > NRise THEN [raised |-> "", Ask1 |-> Ask1, out |-> acc]
    ELSE rise_assign(k, rise_ask(Ask1, tsb, before_time_ticks(k)), tsb, acc)

\* Ask1 is a view of ask_price_1: what rise_ask writes to it is written there
write_through(ask, k0, Ask1) ==
    Table(LAMBDA j : IF j >= k0 THEN Ask1[j - k0] ELSE ask[j], len(ask))

RiseAssigned(k0, r) ==
    IF r.raised # ""
    THEN Except(r.raised)
    ELSE /\ series' = r.out
         /\ ask_price_1' = write_through(ask_price_1, k0, r.Ask1)
         /\ pc' = "depth"
         /\ UNCHANGED <<disk, day, log, csv, len_, time_second_basic,
                        bid_price_1, ask_quantity, bid_quantity,
                        data_2014_UP, data_2014_DOWN, walkVars, callVars>>

\* Ask1 = ask_price_1[np.where(time_second_basic <= 0.0)[0][-1]:] and the 30 calls
RiseFeatures ==
    /\ pc = "rise"
    /\ IF open_array(time_second_basic) = {}
       THEN Except("IndexError")
       ELSE RiseAssigned(MaxOf(open_array(time_second_basic)),
                         rise_features(1,
                                       SliceFrom(ask_price_1,
                                                 MaxOf(open_array(time_second_basic))),
                                       time_second_basic, series))

\* one call of weight_percentage and the assignment of its two results
depth_assign(c, r, acc) ==
    [acc EXCEPT ![c.W_AB] = r.W_AB, ![c.W_A_B] = r.W_A_B]

\* the calls of weight_percentage number p to 17, in order
RECURSIVE depth_features(_, _, _, _)
depth_features(p, aq, bq, acc) ==
    IF p > Len(DepthCalls) THEN acc
    ELSE depth_features(p + 1, aq, bq,
                        depth_assign(DepthCalls[p],
                                     weight_percentage(DepthCalls[p].w1, DepthCalls[p].w2,
                                                       DepthCalls[p].w3, aq, bq),
                                     acc))

DepthFeatures ==
    /\ pc = "depth"
    /\ series' = depth_features(1, ask_quantity, bid_quantity, series)
    /\ half' = "UP"
    /\ pc' = "enter"
    /\ UNCHANGED <<disk, day, log, csv, len_, time_second_basic, bid_price_1,
                   ask_price_1, ask_quantity, bid_quantity, data_2014_UP,
                   data_2014_DOWN, i, index, index_one, index_, traded,
                   rise_ratio_second, w_divid, w_diff, callVars>>

\* np.where(time_second_basic <= time1)[0], for time1 = 0 and time1 = 14400
start_array(tsb, t1) ==
    {j \in DOMAIN tsb : tsb[j] <= t1}

\* traded_label_one_second is entered: its lists are empty, index_one is looked up
Entered(env) ==
    IF start_array(env["time_second_basic"], env["time1"]) = {}
    THEN Except("IndexError")
    ELSE /\ index_one' = MaxOf(start_array(env["time_second_basic"], env["time1"]))
         /\ i' = env["time1"]
         /\ index' = -1
         /\ index_' = Empty
         /\ traded' = Empty
         /\ rise_ratio_second' = NoLists30
         /\ w_divid' = NoListsKey
         /\ w_diff' = NoListsKey
         /\ pc' = "walk"
         /\ UNCHANGED <<disk, day, log, csv, len_, dataVars, half, callVars>>

EnterWalk ==
    /\ pc = "enter"
    /\ Entered(label_env(half))

\* the lists after the iteration, or the exception that ends the day
Walked(r) ==
    IF r.raised # ""
    THEN Except(r.raised)
    ELSE /\ index' = r.index
         /\ index_' = r.index_
         /\ traded' = r.traded
         /\ rise_ratio_second' = r.rise_ratio_second
         /\ w_divid' = r.w_divid
         /\ w_diff' = r.w_diff
         /\ i' = i + 1
         /\ UNCHANGED <<mainVars, dataVars, half, index_one, callVars>>

\* one grid second
WalkSecond ==
    /\ pc = "walk"
    /\ i < label_env(half)["time2"]
    /\ Walked(walk_second(label_env(half), i))

\* a variant that writes the morning file as soon as the morning frame is built
ReturnUPWriting ==
    /\ pc = "walk"
    /\ half = "UP"
    /\ i >= label_env(half)["time2"]
    /\ data_2014_UP' = Feature_DataFrame(traded_label_return)
    /\ csv' = csv \cup {[day |-> day, name |-> "UP",
                         data |-> Feature_DataFrame(traded_label_return)]}
    /\ half' = "DOWN"
    /\ pc' = "enter"
    /\ UNCHANGED <<disk, day, log, len_, time_second_basic, bid_price_1,
                   ask_price_1, ask_quantity, bid_quantity, series, data_2014_DOWN,
                   i, index, index_one, index_, traded, rise_ratio_second, w_divid,
                   w_diff, callVars>>

\* traded_label_one_second returns and Feature_DataFrame_UP builds the frame
ReturnUP ==
    /\ pc = "walk"
    /\ half = "UP"
    /\ i >= label_env(half)["time2"]
    /\ data_2014_UP' = Feature_DataFrame(traded_label_return)
    /\ half' = "DOWN"
    /\ pc' = "enter"
    /\ UNCHANGED <<disk, day, log, csv, len_, time_second_basic, bid_price_1,
                   ask_price_1, ask_quantity, bid_quantity, series, data_2014_DOWN,
                   i, index, index_one, index_, traded, rise_ratio_second, w_divid,
                   w_diff, callVars>>

\* the same for Feature_DataFrame_DOWN, and data() returns: len(W_AB_111)
ReturnDOWN ==
    /\ pc = "walk"
    /\ half = "DOWN"
    /\ i >= label_env(half)["time2"]
    /\ data_2014_DOWN' = Feature_DataFrame(traded_label_return)
    /\ len_' = len(series["W_AB_111"])
    /\ pc' = "to_csv_UP"
    /\ UNCHANGED <<disk, day, log, csv, time_second_basic, bid_price_1, ask_price_1,
                   ask_quantity, bid_quantity, series, data_2014_UP, walkVars, callVars>>

\* data_UP.to_csv(path_up, index=False)
ToCsvUP ==
    /\ pc = "to_csv_UP"
    /\ csv' = csv \cup {[day |-> day, name |-> "UP", data |-> data_2014_UP]}
    /\ pc' = "to_csv_DOWN"
    /\ UNCHANGED <<disk, day, log, len_, dataVars, walkVars, callVars>>

\* data_DOWN.to_csv(path_down, index=False), the reports, the next day
ToCsvDOWN ==
    /\ pc = "to_csv_DOWN"
    /\ csv' = csv \cup {[day |-> day, name |-> "DOWN", data |-> data_2014_DOWN]}
    /\ log' = append(log, [day |-> day, result |-> "ok", len_ |-> len_])
    /\ day' = day + 1
    /\ len_' = 0
    /\ pc' = "main"
    /\ DropData
    /\ DropFrames
    /\ DropWalk
    /\ UNCHANGED <<disk, callVars>>

\* the loop over day_list is over
Finish ==
    /\ pc = "main"
    /\ day >= len(disk)
    /\ pc' = "done"
    /\ UNCHANGED <<disk, day, log, csv, len_, dataVars, walkVars, callVars>>

Files ==
    Days \cup {Missing}

InitProgram ==
    /\ pc = "main"
    /\ day = 0
    /\ log = Empty
    /\ csv = {}
    /\ len_ = 0
    /\ IdleData
    /\ IdleWalk
    /\ IdleCall

\* the main program: day_list holds one day
Init ==
    /\ disk \in {Arr(<<f>>) : f \in Files}
    /\ InitProgram

Next ==
    \/ OrderBook
    \/ RiseFeatures
    \/ DepthFeatures
    \/ EnterWalk
    \/ WalkSecond
    \/ ReturnUP
    \/ ReturnDOWN
    \/ ToCsvUP
    \/ ToCsvDOWN
    \/ Finish

Spec ==
    Init /\ [][Next]_vars

(***************************************************************************)
(* The batch driver over a day list of several days                        *)
(***************************************************************************)
BatchDays ==
    { MakeDay(<<0, 3, 6, 9, 12>>, <<BookA, BookB, BookA, BookB, BookA>>),
      MakeDay(<<0, 2, 4, 7, 10, 13>>, <<BookB, BookA, BookZ, BookA, BookB, BookA>>),
      MakeDay(<<0, 5, 10>>, <<BookA, BookB, BookA>>),
      MakeDay(<<-1, 0, 3, 6, 12>>, <<BookA, BookA, BookB, BookA, BookB>>) }

DayLists ==
    {Arr(<<f, Missing, f>>) : f \in BatchDays}
        \cup {Arr(<<Missing, f>>) : f \in BatchDays}
        \cup {Arr(<<f, g>>) : f \in BatchDays, g \in BatchDays}

InitBatch ==
    /\ disk \in DayLists
    /\ InitProgram

SpecBatch ==
    InitBatch /\ [][Next]_vars

(***************************************************************************)
(* rise_ask called on its own                                              *)
(***************************************************************************)
\* ask prices of the synthetic day of the scenario, and a missing price
RisePrices ==
    {F(100), F(101), F(99), F(0)}

RiseOffsets ==
    { <<0, 5, 10>>, <<0, 0, 6>>, <<-1, 0, 7>>, <<0, 4, 3>>, <<0, 1, 2>>,
      <<0, 2, 4, 6>> }

RiseWindows ==
    {F(5), F(3)}

RiseCalls ==
    UNION {{[f |-> "rise_ask",
             Ask1 |-> Arr(p),
             timestamp_time_second |-> Arr(o),
             before_time |-> w] : p \in [1 .. Len(o) -> RisePrices], w \in RiseWindows}
           : o \in RiseOffsets}

IdleMain ==
    /\ disk = Empty
    /\ day = 0
    /\ log = Empty
    /\ csv = {}
    /\ len_ = 0

InitRise ==
    /\ pc = "call"
    /\ call \in RiseCalls
    /\ ret = [f |-> ""]
    /\ IdleMain
    /\ IdleData
    /\ IdleWalk

RiseReturned(r) ==
    ret' = [f |-> "rise_ask", raised |-> r.raised, Ask1 |-> r.Ask1,
            rise_ratio |-> r.rise_ratio]

CallRiseAsk ==
    /\ pc = "call"
    /\ call.f = "rise_ask"
    /\ ret.f = ""
    /\ RiseReturned(rise_ask(call.Ask1, call.timestamp_time_second, call.before_time))
    /\ UNCHANGED <<mainVars, dataVars, walkVars, call>>

NextRise ==
    CallRiseAsk

SpecRise ==
    InitRise /\ [][NextRise]_vars

(***************************************************************************)
(* weight_percentage called on its own                                     *)
(***************************************************************************)
\* the three level quantities of one side at one snapshot, as the file has them
LevelQuantities ==
    { <<F(1), F(2), F(0)>>, <<F(0), F(0), F(0)>>, <<NaN, F(3), F(1)>>,
      <<F(2), NaN, NaN>>, <<F(0), F(0), F(5)>> }

\* the level-l array of a side over two snapshots, nan filled as order_book does
level_array(q, l) ==
    NanToZero(Arr(<<q[1][l], q[2][l]>>))

side_arrays(q) ==
    <<level_array(q, 1), level_array(q, 2), level_array(q, 3)>>

DepthCallSet ==
    {[f |-> "weight_percentage",
      w1 |-> DepthCalls[p].w1, w2 |-> DepthCalls[p].w2, w3 |-> DepthCalls[p].w3,
      ask_quantity |-> side_arrays(a),
      bid_quantity |-> side_arrays(b)] :
        p \in 1 .. Len(DepthCalls),
        a \in LevelQuantities \X LevelQuantities,
        b \in LevelQuantities \X LevelQuantities}

InitDepth ==
    /\ pc = "call"
    /\ call \in DepthCallSet
    /\ ret = [f |-> ""]
    /\ IdleMain
    /\ IdleData
    /\ IdleWalk

DepthReturned(r) ==
    ret' = [f |-> "weight_percentage", Weight_Ask |-> r.Weight_Ask,
            Weight_Bid |-> r.Weight_Bid, W_AB |-> r.W_AB, W_A_B |-> r.W_A_B]

CallWeightPercentage ==
    /\ pc = "call"
    /\ call.f = "weight_percentage"
    /\ ret.f = ""
    /\ DepthReturned(weight_percentage(call.w1, call.w2, call.w3,
                                       call.ask_quantity, call.bid_quantity))
    /\ UNCHANGED <<mainVars, dataVars, walkVars, call>>

NextDepth ==
    CallWeightPercentage

SpecDepth ==
    InitDepth /\ [][NextDepth]_vars

(***************************************************************************)
(* Properties                                                              *)
(***************************************************************************)
NonDecreasing(tsb) ==
    \A j \in DOMAIN tsb, k \in DOMAIN tsb : j < k => tsb[j] <= tsb[k]

\* the offsets of the events of a file
FileOffsets(file) ==
    Table(LAMBDA j : file.rows[j].timestamp - SessionOpen, len(file.rows))

\* offsets never decrease and the first event is at or before session open
WellFormed(file) ==
    /\ file.exists
    /\ len(file.rows) > 0
    /\ NonDecreasing(FileOffsets(file))
    /\ FileOffsets(file)[0] <= 0

\* the output files of day d
Written(d) ==
    {e \in csv : e.day = d}

MorningRows ==
    MorningClose - 0

AfternoonRows ==
    SessionClose - AfternoonOpen

\* the grid second of row r of the half being walked
SecondOf(r) ==
    time1(half) + r

\* second s has no snapshot of its own
Gap(s) ==
    /\ s # 0
    /\ s # AfternoonOpen
    /\ \A j \in DOMAIN time_second_basic :
          ~(time_second_basic[j] >= s /\ time_second_basic[j] < s + 1)

\* the last snapshot with offset <= t
LastUpTo(t) ==
    MaxOf({j \in DOMAIN time_second_basic : time_second_basic[j] <= t})

\* the snapshot index second s works with: its own as-of snapshot, or on a gap the
\* one of the most recent second that had a snapshot
RECURSIVE AsOf(_)
AsOf(s) ==
    IF s = 0 \/ s = AfternoonOpen THEN LastUpTo(s)
    ELSE IF Gap(s) THEN AsOf(s - 1)
    ELSE MaxOf({j \in DOMAIN time_second_basic :
                  time_second_basic[j] >= s /\ time_second_basic[j] < s + 1})

\* the row of the most recent second, up to row r, that had a snapshot
RECURSIVE LastFreshRow(_)
LastFreshRow(r) ==
    IF Gap(SecondOf(r)) THEN LastFreshRow(r - 1) ELSE r

\* rows r1 and r2 carry the same 64 feature values
SameFeatures(r1, r2) ==
    /\ \A j \in 0 .. NRise - 1 : rise_ratio_second[j][r1] = rise_ratio_second[j][r2]
    /\ \A key \in KeySet : /\ w_divid[key][r1] = w_divid[key][r2]
                           /\ w_diff[key][r1] = w_diff[key][r2]

\* the label of second s anchored at snapshot idx, as the label rule states it
StatedLabel(s, idx) ==
    IF s < SessionClose - traded_time_main
    THEN IF \E k \in idx .. LastUpTo(s + traded_time_main) - 1 :
               FLess(ask_price_1[k], bid_price_1[idx])
         THEN 1 ELSE 0
    ELSE IF FGreater(bid_price_1[idx], ask_price_1[len(ask_price_1) - 1]) THEN 1 ELSE 0

\* C1 as stated: every day whose offsets are non-decreasing and whose first
\* snapshot is at or before session open is completed without failure, with a
\* morning matrix of time2 - time1 rows and an afternoon matrix of as many rows as
\* the afternoon has seconds.
C1_WellFormedDayCompletes ==
    \A d \in DOMAIN log :
        WellFormed(disk[d]) =>
            /\ log[d].result = "ok"
            /\ \E e \in Written(d) : e.name = "UP" /\ len(e.data) = MorningRows
            /\ \E e \in Written(d) : e.name = "DOWN" /\ len(e.data) = AfternoonRows

\* C2 as stated: the full row of a gap second, label and 64 features, equals the
\* row before it.
C2_GapRowEqualsPrevious ==
    pc = "walk" =>
        \A r \in 1 .. len(traded) - 1 :
            Gap(SecondOf(r)) => traded[r] = traded[r - 1] /\ SameFeatures(r, r - 1)

\* C2 amended: the 64 feature values of a gap second equal those of the row before
\* it; the label is computed again and may differ.
C2_GapFeaturesEqualPrevious ==
    pc = "walk" =>
        \A r \in 1 .. len(traded) - 1 : Gap(SecondOf(r)) => SameFeatures(r, r - 1)

\* a gap row whose label differs from the label of the row before it
C2_GapRowWithNewLabel ==
    /\ pc = "walk"
    /\ \E r \in 1 .. len(traded) - 1 : Gap(SecondOf(r)) /\ traded[r] # traded[r - 1]

\* C3: on a gap second the features are those of the row before it, hence of the
\* last second that had a snapshot; the label is the forward-horizon rule at the
\* current second, anchored at the index carried over from that second, and no
\* fresh lookup changes the carried index.
C3_GapRow ==
    pc = "walk" =>
        /\ \A r \in 1 .. len(traded) - 1 :
              Gap(SecondOf(r)) =>
                  /\ SameFeatures(r, r - 1)
                  /\ SameFeatures(r, LastFreshRow(r))
                  /\ traded[r] = StatedLabel(SecondOf(r), AsOf(SecondOf(LastFreshRow(r))))
        /\ (len(traded) > 0 /\ Gap(i - 1)) => index = AsOf(SecondOf(LastFreshRow(len(traded) - 1)))

\* a run of two gap seconds whose second label differs from the label of the last
\* second that had a snapshot
C3_GapRunWithNewLabel ==
    /\ pc = "walk"
    /\ \E r \in 2 .. len(traded) - 1 :
          /\ Gap(SecondOf(r))
          /\ Gap(SecondOf(r - 1))
          /\ traded[r] # traded[LastFreshRow(r)]
          /\ SameFeatures(r, LastFreshRow(r))

\* C4: within one half, for non-decreasing offsets, the index a grid second works
\* with (looked up or carried over) is never below the one of the second before.
C4_CursorNonDecreasing ==
    [][(/\ pc = "walk"
        /\ pc' = "walk"
        /\ index # -1
        /\ NonDecreasing(time_second_basic)) => index' >= index]_vars

\* the cursor has moved past the start of the half and was then carried over a gap
C4_CursorCarried ==
    /\ pc = "walk"
    /\ NonDecreasing(time_second_basic)
    /\ len(traded) > 1
    /\ Gap(i - 1)
    /\ index > index_one

\* C5: every label is 0 or 1; before the last horizon seconds of the day it is 1
\* iff the bid at the as-of index is strictly above the minimum ask over the
\* snapshots from the as-of index up to, not including, the last snapshot with
\* offset <= i + horizon; in the last horizon seconds it is 1 iff that bid is
\* strictly above the ask of the last snapshot of the day.
C5_LabelRule ==
    pc = "walk" =>
        \A r \in 0 .. len(traded) - 1 :
            /\ traded[r] \in {0, 1}
            /\ traded[r] = StatedLabel(SecondOf(r), AsOf(SecondOf(r)))

\* the afternoon has labels 1 on both sides of the last horizon, and a label 0
C5_BothRulesApplied ==
    /\ pc = "walk"
    /\ half = "DOWN"
    /\ \E r \in 0 .. len(traded) - 1 :
          SecondOf(r) < SessionClose - traded_time_main /\ traded[r] = 1
    /\ \E r \in 0 .. len(traded) - 1 :
          SecondOf(r) >= SessionClose - traded_time_main /\ traded[r] = 1
    /\ \E r \in 0 .. len(traded) - 1 : traded[r] = 0

\* the baseline index of snapshot m for lookback w, as the rule states it: 0 while
\* no snapshot up to m has an offset >= w, else the first index below m whose offset
\* is >= offset[m] - w
StatedBaseline(offset, m, w) ==
    IF \A j \in 0 .. m : FLess(F(offset[j]), w) THEN 0
    ELSE MinOf({j \in 0 .. m - 1 : FGeq(F(offset[j]), FSub(F(offset[m]), w))})

\* round((price[m] - price[b]) / price[b] * 100, 5)
StatedRatio(price, m, b) ==
    round5(FMul(FDiv(FSub(price[m], price[b]), price[b]), F(100)))

\* offsets 0, 5, 10, ask prices 100, 101, 99, lookback 5
ScenarioCall ==
    [f |-> "rise_ask",
     Ask1 |-> Arr(<<F(100), F(101), F(99)>>),
     timestamp_time_second |-> Arr(<<0, 5, 10>>),
     before_time |-> F(5)]

\* C6: a call of rise_ask that returns gives one value per snapshot, the rounded
\* percentage change of the price (after the zero entries were replaced) against
\* the baseline of the rule; in the scenario the call returns and the value of the
\* snapshot at offset 10 is -1.98020.
C6_RiseAskBaseline ==
    /\ (ret.f = "rise_ask" /\ ret.raised = "") =>
          /\ len(ret.rise_ratio) = len(call.Ask1)
          /\ \A m \in DOMAIN ret.rise_ratio :
                ret.rise_ratio[m] =
                    StatedRatio(ret.Ask1, m,
                                StatedBaseline(call.timestamp_time_second, m,
                                               call.before_time))
    /\ (ret.f = "rise_ask" /\ call = ScenarioCall) =>
          /\ ret.raised = ""
          /\ ret.rise_ratio[2] = Fin(-198020, 100000)
          /\ StatedBaseline(call.timestamp_time_second, 2, call.before_time) = 1

\* the scenario call has returned with the value of the scenario
C6_ScenarioReturned ==
    /\ ret.f = "rise_ask"
    /\ ret.raised = ""
    /\ call = ScenarioCall
    /\ ret.rise_ratio[2] = Fin(-198020, 100000)

\* C7 as stated: at every snapshot the diff feature is (ratio - 1) / (ratio + 1) of
\* the ratio feature, also where the weighted bid or ask quantity is zero.
C7_DiffFromRatio ==
    ret.f = "weight_percentage" =>
        \A j \in DOMAIN ret.W_AB :
            FEq(ret.W_A_B[j],
                FDiv(FSub(ret.W_AB[j], F(1)), FAdd(ret.W_AB[j], F(1))))

\* the triple names in the order of the depth columns
TripleOrder ==
    <<"100", "010", "001", "910", "820", "730", "640", "550", "721", "532", "111",
      "190", "280", "370", "460", "127", "235">>

\* the rise-ratio series of the k-th lookback window, 360 + 30 * (k - 1) seconds
WindowSeries(k) ==
    rise_ask(SliceFrom(ask_price_1, MaxOf(open_array(time_second_basic))),
             time_second_basic, Fin(360 + 30 * (k - 1), TickSeconds)).rise_ratio

\* the two depth series of the triple named key
TripleCall(key) ==
    CHOOSE p \in 1 .. Len(DepthCalls) : DepthCalls[p].key = key

TripleSeries(key) ==
    weight_percentage(DepthCalls[TripleCall(key)].w1, DepthCalls[TripleCall(key)].w2,
                      DepthCalls[TripleCall(key)].w3, ask_quantity, bid_quantity)

\* column c of the frame of the half that starts at t1 holds, in the row of second
\* s, the entry of values that the walk reads for s
ColumnIs(frame, c, values, t1, shift) ==
    \A r \in DOMAIN frame : frame[r][c] = Get(values, AsOf(t1 + r) - shift)

DepthColumnsAre(frame, p, pair, t1) ==
    /\ ColumnIs(frame, 29 + 2 * p, pair.W_AB, t1, 0)
    /\ ColumnIs(frame, 30 + 2 * p, pair.W_A_B, t1, 0)

FrameColumns(frame, t1) ==
    /\ \A r \in DOMAIN frame :
          /\ len(frame[r]) = 65
          /\ frame[r][0] = F(StatedLabel(t1 + r, AsOf(t1 + r)))
    /\ \A k \in 1 .. 30 : ColumnIs(frame, k, WindowSeries(k), t1, AsOf(t1))
    /\ \A p \in 1 .. Len(TripleOrder) :
          DepthColumnsAre(frame, p, TripleSeries(TripleOrder[p]), t1)

\* C8: column 0 of each matrix is the label, columns 1..30 are the rise ratios of
\* the windows 360, 390, ..., 1230 in this order, columns 31..64 are the (ratio,
\* diff) pairs of the triples in the fixed order.
C8_ColumnOrder ==
    /\ (pc = "enter" /\ half = "DOWN") => FrameColumns(data_2014_UP, 0)
    /\ pc = "to_csv_UP" => FrameColumns(data_2014_DOWN, AfternoonOpen)

\* both matrices are built and a row tells the columns apart
C8_DistinctColumns ==
    /\ pc = "to_csv_UP"
    /\ len(data_2014_UP) = MorningRows
    /\ \E r \in DOMAIN data_2014_DOWN :
          /\ data_2014_DOWN[r][1] # data_2014_DOWN[r][30]
          /\ data_2014_DOWN[r][31] # data_2014_DOWN[r][32]
          /\ data_2014_DOWN[r][31] # data_2014_DOWN[r][33]
          /\ data_2014_DOWN[r][32] # data_2014_DOWN[r][34]

\* C9: a file of a day is written only when both matrices of the day are complete;
\* a day that failed has no file.
C9_NoPartialOutput ==
    /\ \A e \in csv :
          /\ e.day <= day
          /\ e.day < day => log[e.day].result = "ok"
          /\ e.day = day => pc = "to_csv_DOWN" /\ e.name = "UP"
          /\ len(e.data) = IF e.name = "UP" THEN MorningRows ELSE AfternoonRows
    /\ \A d \in DOMAIN log : log[d].result # "ok" => Written(d) = {}
    /\ pc \in {"to_csv_UP", "to_csv_DOWN"} =>
          /\ len(data_2014_UP) = MorningRows
          /\ len(data_2014_DOWN) = AfternoonRows

\* a day failed in the grid walk and nothing was written
C9_FailedInWalk ==
    /\ pc = "main"
    /\ len(log) = 1
    /\ log[0].result = "ValueError"
    /\ csv = {}

\* days d1 and d2 ended the same way and wrote the same files
SameOutcome(d1, d2) ==
    /\ log[d1].result = log[d2].result
    /\ log[d1].len_ = log[d2].len_
    /\ {<<e.name, e.data>> : e \in Written(d1)} = {<<e.name, e.data>> : e \in Written(d2)}

\* C10: a day whose file is missing is reported as not found, nothing is written
\* for it, every day of the list is reached, and a day processed after the missing
\* one ends as the same day does when processed before it.
C10_MissingDaySkipped ==
    /\ \A d \in DOMAIN log :
          ~disk[d].exists => log[d].result = "FileNotFoundError" /\ Written(d) = {}
    /\ pc = "done" => len(log) = len(disk)
    /\ pc = "main" => day = len(log) /\ IdleData /\ IdleWalk
    /\ \A d1 \in DOMAIN log, d2 \in DOMAIN log :
          (/\ d1 < d2
           /\ disk[d1] = disk[d2]
           /\ \E m \in d1 + 1 .. d2 - 1 : ~disk[m].exists) => SameOutcome(d1, d2)

\* the list is done: its second day was missing and its third day was written
C10_DayAfterMissingWritten ==
    /\ pc = "done"
    /\ len(disk) = 3
    /\ ~disk[1].exists
    /\ log[1].result = "FileNotFoundError"
    /\ log[2].result = "ok"
    /\ Written(2) # {}

\* C11 as stated: the length reported for a completed day is the row count of the
\* matrices written for it (of the morning matrix, of the afternoon matrix, or of
\* both together).
C11_ReportedLengthIsRowCount ==
    \A d \in DOMAIN log :
        log[d].result = "ok" =>
            log[d].len_ \in {MorningRows, AfternoonRows, MorningRows + AfternoonRows}

\* the snapshots whose offset lies in [s, s + 1)
InSecond(s) ==
    {j \in DOMAIN time_second_basic :
        time_second_basic[j] >= s /\ time_second_basic[j] < s + 1}

\* C12: at the seconds 0 and 14400 the walk works with the last snapshot whose
\* offset is <= i; at every other second with the last snapshot whose offset lies
\* in [i, i + 1); a second other than these two with no snapshot in [i, i + 1) is a
\* gap, whatever earlier snapshots exist: the index is carried over and no start or
\* end index is recorded.
C12_AsOfLookup ==
    [][(pc = "walk" /\ pc' = "walk") =>
          IF i = 0 \/ i = AfternoonOpen THEN index' = LastUpTo(i)
          ELSE IF InSecond(i) # {} THEN index' = MaxOf(InSecond(i))
          ELSE index' = index /\ index_' = index_]_vars

\* the afternoon started from a snapshot older than its first second, and a later
\* second was a gap
C12_OldAnchorThenGap ==
    /\ pc = "walk"
    /\ half = "DOWN"
    /\ time_second_basic[index_one] < AfternoonOpen
    /\ len(traded) > 1
    /\ InSecond(i - 1) = {}
    /\ index > index_one

\* C13 as stated: at every grid second before the last horizon seconds of the day
\* the forward window [idx, idxH) of the label is not empty, so that the minimum ask
\* exists and the label computation does not fail.
C13_ForwardWindowNonEmpty ==
    /\ (/\ pc = "walk"
        /\ i < time2(half)
        /\ i < SessionClose - traded_time_main) =>
            AsOf(i) < LastUpTo(i + traded_time_main)
    /\ \A d \in DOMAIN log : log[d].result # "ValueError"

\* C14 as stated: for non-decreasing offsets whose first is <= 0, rise_ask returns,
\* with one value per price entry.
C14_RiseAskReturnsFullSeries ==
    (/\ ret.f = "rise_ask"
     /\ NonDecreasing(call.timestamp_time_second)
     /\ call.timestamp_time_second[0] <= 0) =>
        /\ ret.raised = ""
        /\ len(ret.rise_ratio) = len(call.Ask1)

\* row r of the walk holds the rise-ratio values of position prise and the depth
\* values of position pdepth of the series of data()
RowReadAt(r, prise, pdepth) ==
    /\ \A j \in 0 .. NRise - 1 :
          rise_ratio_second[j][r] = Get(series[RiseNames[j + 1]], prise)
    /\ \A key \in KeySet :
          /\ w_divid[key][r] = Get(series[W_AB_name[key]], pdepth)
          /\ w_diff[key][r] = Get(series[W_A_B_name[key]], pdepth)

\* C15 as stated: in the row of a second that has a snapshot, the 30 rise-ratio
\* values and the 34 depth values are read at asOfIndex(i) - asOfIndex(time1).
C15_AllReadAtRelativeOffset ==
    pc = "walk" =>
        \A r \in 0 .. len(traded) - 1 :
            ~Gap(SecondOf(r)) =>
                RowReadAt(r, AsOf(SecondOf(r)) - AsOf(time1(half)),
                          AsOf(SecondOf(r)) - AsOf(time1(half)))

\* C15 amended: the 30 rise-ratio values are read at asOfIndex(i) -
\* asOfIndex(time1), the 34 depth values at asOfIndex(i) itself, in both halves.
C15_RiseRelativeDepthAbsolute ==
    pc = "walk" =>
        /\ index_one = AsOf(time1(half))
        /\ \A r \in 0 .. len(traded) - 1 :
              ~Gap(SecondOf(r)) =>
                  RowReadAt(r, AsOf(SecondOf(r)) - index_one, AsOf(SecondOf(r)))

\* an afternoon row of a second with a snapshot, in which a depth series differs
\* between the two positions
C15_PositionsDiffer ==
    /\ pc = "walk"
    /\ half = "DOWN"
    /\ index_one > 0
    /\ len(traded) > 0
    /\ ~Gap(i - 1)
    /\ \E key \in KeySet :
          Get(series[W_AB_name[key]], index) # Get(series[W_AB_name[key]], index - index_one)

\* the sum of the first n entries of a price series
RECURSIVE PriceSum(_, _)
PriceSum(price, n) ==
    IF n = 0 THEN F(0) ELSE FAdd(PriceSum(price, n - 1), price[n - 1])

\* the arithmetic mean of all entries, zeros included
StatedMean(price) ==
    FDiv(PriceSum(price, len(price)), F(len(price)))

\* C16: rise_ask replaces every zero entry of the price series by the mean of the
\* entire series and leaves the other entries alone; for a series with a non-zero
\* entry no price is zero afterwards, and every ratio of a call that returns is
\* finite.
C16_ZeroToMean ==
    ret.f = "rise_ask" =>
        /\ \A j \in DOMAIN call.Ask1 :
              ret.Ask1[j] = IF FEq(call.Ask1[j], F(0)) THEN StatedMean(call.Ask1)
                            ELSE call.Ask1[j]
        /\ (\E j \in DOMAIN call.Ask1 : ~FEq(call.Ask1[j], F(0))) =>
              /\ \A j \in DOMAIN ret.Ask1 : ~FEq(ret.Ask1[j], F(0))
              /\ ret.raised = "" => \A m \in DOMAIN ret.rise_ratio : IsFin(ret.rise_ratio[m])

\* the first price was zero, later ones were not, and the call returned
C16_ZeroReplaced ==
    /\ ret.f = "rise_ask"
    /\ ret.raised = ""
    /\ FEq(call.Ask1[0], F(0))
    /\ ~FEq(call.Ask1[1], F(0))
    /\ ~FEq(call.Ask1[1], call.Ask1[2])
    /\ ret.Ask1[0] = StatedMean(call.Ask1)

\* the index at which data() cuts the price series for rise_ask: the last snapshot
\* with offset <= 0
SessionOpenIndex ==
    LastUpTo(0)

AlignedSeries(k) ==
    rise_ask(SliceFrom(ask_price_1, SessionOpenIndex),
             SliceFrom(time_second_basic, SessionOpenIndex),
             Fin(360 + 30 * (k - 1), TickSeconds))

\* C18 as stated: the price series and the offset array that data() hands to
\* rise_ask are index-aligned, so each of the 30 series is the one rise_ask gives
\* for the snapshots from session open on with their own offsets.
C18_RiseInputsAligned ==
    pc = "depth" =>
        \A k \in 1 .. NRise :
            /\ AlignedSeries(k).raised = ""
            /\ series[RiseNames[k]] = AlignedSeries(k).rise_ratio

\* C19 as stated: after the rise-ratio series are computed, the level-1 ask prices
\* that the rest of data() and the grid walk work with are the prices as parsed.
C19_AskPricesAsParsed ==
    pc \in {"depth", "enter", "walk", "to_csv_UP", "to_csv_DOWN"} =>
        ask_price_1 = order_book(disk[day]).ask_price_1

\* C20: for non-decreasing offsets, before the last horizon seconds of the day, the
\* label of a gap second is not below the label of the second before it: along a
\* run of seconds that use the same as-of index the label never falls back to 0.
C20_LabelMonotoneInRun ==
    (pc = "walk" /\ NonDecreasing(time_second_basic)) =>
        \A r \in 1 .. len(traded) - 1 :
            (Gap(SecondOf(r)) /\ SecondOf(r) < SessionClose - traded_time_main) =>
                traded[r] >= traded[r - 1]

\* a run in which the label rose from 0 to 1 on a gap second and stayed 1 on the
\* next gap second
C20_LabelRoseAndStayed ==
    /\ pc = "walk"
    /\ NonDecreasing(time_second_basic)
    /\ \E r \in 1 .. len(traded) - 2 :
          /\ Gap(SecondOf(r))
          /\ Gap(SecondOf(r + 1))
          /\ SecondOf(r + 1) < SessionClose - traded_time_main
          /\ traded[r - 1] = 0
          /\ traded[r] = 1
          /\ traded[r + 1] = 1

\* C21: the first grid second of a half never takes the gap branch. No day ends
\* with a gap second that finds no index assigned, and whenever the walk of a half
\* holds a row, a snapshot with offset <= time1 exists, the first second recorded
\* its own as-of index (the half's starting index) in index_, and row 0 holds the
\* values read for that snapshot: every gap row has a row and an index before it.
C21_FirstSecondFresh ==
    /\ \A d \in DOMAIN log : log[d].result # "UnboundLocalError"
    /\ (pc = "walk" /\ len(traded) >= 1) =>
          /\ {j \in DOMAIN time_second_basic : time_second_basic[j] <= time1(half)} # {}
          /\ index # -1
          /\ len(index_) >= 1
          /\ index_[0] = LastUpTo(time1(half))
          /\ index_[0] = index_one
          /\ RowReadAt(0, 0, index_one)
          /\ \A r \in 0 .. len(traded) - 1 : Gap(SecondOf(r)) => r >= 1

\* an afternoon walk whose starting snapshot is older than the first grid second
\* and whose second row is a gap row
C21_GapAfterOldStart ==
    /\ pc = "walk"
    /\ half = "DOWN"
    /\ len(traded) >= 2
    /\ time_second_basic[index_[0]] < time1(half)
    /\ Gap(SecondOf(1))

\* the three digits of the name of a weight triple
NameDigits ==
    [key \in KeySet |->
        CASE key = "100" -> <<1, 0, 0>>
          [] key = "010" -> <<0, 1, 0>>
          [] key = "001" -> <<0, 0, 1>>
          [] key = "910" -> <<9, 1, 0>>
          [] key = "820" -> <<8, 2, 0>>
          [] key = "730" -> <<7, 3, 0>>
          [] key = "640" -> <<6, 4, 0>>
          [] key = "550" -> <<5, 5, 0>>
          [] key = "721" -> <<7, 2, 1>>
          [] key = "532" -> <<5, 3, 2>>
          [] key = "111" -> <<1, 1, 1>>
          [] key = "190" -> <<1, 9, 0>>
          [] key = "280" -> <<2, 8, 0>>
          [] key = "370" -> <<3, 7, 0>>
          [] key = "460" -> <<4, 6, 0>>
          [] key = "127" -> <<1, 2, 7>>
          [] key = "235" -> <<2, 3, 5>>]

\* the two series of a triple as its name states them: weights ten times the digits
NamedPair(key) ==
    weight_percentage(10 * NameDigits[key][1], 10 * NameDigits[key][2],
                      10 * NameDigits[key][3], ask_quantity, bid_quantity)

\* call c of data() passes percentages summing to 100, ten times the digits of
\* its name
AsNamed(c) ==
    /\ c.w1 + c.w2 + c.w3 = 100
    /\ c.w1 = 10 * NameDigits[c.key][1]
    /\ c.w2 = 10 * NameDigits[c.key][2]
    /\ c.w3 = 10 * NameDigits[c.key][3]

\* C22 as stated: once data() has computed the depth features, every triple other
\* than 111 was called with percentages summing to 100 that are ten times the
\* digits of its name, and its two series are those of these weights; the triple
\* named 190 puts weight 0 on level 3.
C22_TriplesAsNamed ==
    pc = "enter" =>
        \A p \in 1 .. Len(DepthCalls) :
            DepthCalls[p].key # "111" =>
                /\ AsNamed(DepthCalls[p])
                /\ DepthCalls[p].key = "190" => DepthCalls[p].w3 = 0
                /\ series[DepthCalls[p].W_AB] = NamedPair(DepthCalls[p].key).W_AB
                /\ series[DepthCalls[p].W_A_B] = NamedPair(DepthCalls[p].key).W_A_B

=============================================================================
